---- MODULE Spec2Model ----
(***************************************************************************)
(* A model of the daria_scraper extraction code: the field extractor of    *)
(* DariaScraper (main.py) and CharacterScraper (scrapers/character.py),    *)
(* the link resolvers, and the section-scoped image collectors of          *)
(* AlterEgoScraper (scrapers/alter_ego.py), DariaScraper and               *)
(* CharacterScraper.                                                       *)
(*                                                                         *)
(* Strings are sequences of tokens.  A token is an indivisible chunk of    *)
(* characters ("Full Name:", "jane", ".jpg"); every sample string has one  *)
(* tokenisation, so Python's substring test, split and strip become the    *)
(* same operations on token sequences.                                     *)
(***************************************************************************)
EXTENDS Integers, Sequences, FiniteSets, TLC

VARIABLES
    page,       \* the parsed detail page (field extractor input)
    fphase,     \* DariaScraper field extraction: the loop being run
    fidx,       \* DariaScraper field extraction: the element last processed
    data,       \* DariaScraper's daria_data labelled fields
    character,  \* CharacterScraper's Character model, or NoCharacter
    listing,    \* the hyperlinks of the parsed listing page, in document order
    target,     \* character_name given to CharacterScraper.find_character_link
    charLink,   \* what CharacterScraper.find_character_link returned, or NotRun
    mainIdx,    \* DariaScraper step 2: the hyperlinks examined so far
    mainLink,   \* DariaScraper step 2: daria_link (<<>> is None)
    doc,        \* the parsed alter-egos page
    fragment,   \* the fragment identifier of the alter-egos link (<<>> is None)
    impl,       \* the collector that runs: "alter_ego", "main" or "character"
    aeBase,     \* AlterEgoScraper.base_url (<<>> is None)
    ipc,        \* the collector's position: "start", "walk" or "done"
    start,      \* the section walk's start node
    cur,        \* the section walk's current node
    images,     \* the image references collected so far
    detailLinks,          \* the hyperlinks of the detail page, in document order
    aeResult,             \* what CharacterScraper.find_alter_egos_link returned
    aeIdx,                \* main.py step 4: the hyperlinks visited so far
    alter_egos_link,      \* main.py step 4 (None until a hyperlink matches)
    alter_egos_fragment,  \* main.py step 4 (None until a '#' is found)
    description,          \* daria_data["description"]
    ppc,                  \* the pipeline's position in scrape_daria_character_with_alter_egos
    retry_count,          \* fetch_page's retry_count for the page being fetched
    requests,             \* every session.get so far: the page asked for and the outcome
    result,               \* what the pipeline returned
    charResult            \* what CharacterScraper's operations returned

fieldVars == <<page, fphase, fidx, data, character, description>>
linkVars == <<listing, target, charLink, mainIdx, mainLink>>
imageVars == <<doc, fragment, impl, aeBase, ipc, start, cur, images>>
alterVars == <<detailLinks, aeResult, aeIdx, alter_egos_link, alter_egos_fragment>>
pipeVars == <<ppc, retry_count, requests, result, charResult>>
vars == <<fieldVars, linkVars, imageVars, alterVars, pipeVars>>

(***************************************************************************)
(* Bounds of the model.                                                    *)
(***************************************************************************)
MaxRuns == 2
MaxLinks == 3
MaxKids == 4
MaxImgs == 2

(***************************************************************************)
(* Text utilities: Python's str operations on token sequences.             *)
(***************************************************************************)
Whitespace == {" "}

\* texts of 36, of 50 and of 51 characters
Long36 == "Daria Morgendorffer is from Lawndale"
Long50 == "Daria is a smart and cynical girl from Lawndale..."
Long51 == "Daria is a smart and cynical girl from Lawndale...."

\* str.lower(), token by token
LowerTok(t) ==
    CASE t = "Full Name:" -> "full name:"
      [] t = "Current Age:" -> "current age:"
      [] t = "Current Vocation:" -> "current vocation:"
      [] t = "Season One Age:" -> "season one age:"
      [] t = "Season One Vocation:" -> "season one vocation:"
      [] t = "Parents:" -> "parents:"
      [] t = "Siblings:" -> "siblings:"
      [] t = "First Appearance:" -> "first appearance:"
      [] t = "Status at end of series:" -> "status at end of series:"
      [] t = "Daria on herself:" -> "daria on herself:"
      [] t = "Jane" -> "jane"
      [] t = "Erin" -> "erin"
      [] t = "Daria" -> "daria"
      [] t = "DARIA" -> "daria"
      [] t = "Lane" -> "lane"
      [] t = "Fans of" -> "fans of"
      [] t = Long36 -> "daria morgendorffer is from lawndale"
      [] t = Long50 -> "daria is a smart and cynical girl from lawndale..."
      [] t = Long51 -> "daria is a smart and cynical girl from lawndale...."
      [] OTHER -> t

Lower(s) == [i \in 1..Len(s) |-> LowerTok(s[i])]

\* needle in hay
Contains(hay, needle) ==
    \E i \in 0..(Len(hay) - Len(needle)) :
        SubSeq(hay, i + 1, i + Len(needle)) = needle

\* hay.find(needle), for a needle that occurs
FindFirst(hay, needle) ==
    CHOOSE i \in 0..(Len(hay) - Len(needle)) :
        /\ SubSeq(hay, i + 1, i + Len(needle)) = needle
        /\ \A j \in 0..(i - 1) : SubSeq(hay, j + 1, j + Len(needle)) # needle

\* hay.split(needle, 1)[1]
SplitAfter(hay, needle) ==
    SubSeq(hay, FindFirst(hay, needle) + Len(needle) + 1, Len(hay))

\* hay.split(needle, 1)[0]
SplitBefore(hay, needle) == SubSeq(hay, 1, FindFirst(hay, needle))

RECURSIVE LStrip(_)
LStrip(s) ==
    IF s # <<>> /\ Head(s) \in Whitespace THEN LStrip(Tail(s)) ELSE s

RECURSIVE RStrip(_)
RStrip(s) ==
    IF s # <<>> /\ s[Len(s)] \in Whitespace
    THEN RStrip(SubSeq(s, 1, Len(s) - 1))
    ELSE s

\* str.strip()
Strip(s) == RStrip(LStrip(s))

Min(S) == CHOOSE x \in S : \A y \in S : x <= y

(***************************************************************************)
(* The detail page.  A page is a sequence of runs; a run is an optional    *)
(* bold element followed by an optional text node, and blk says whether    *)
(* the run continues the enclosing element of the run before it ("same")   *)
(* or opens a new <p> or <div>.                                            *)
(***************************************************************************)
FN == <<"Full Name:">>
CA == <<"Current Age:">>
SB == <<"Siblings:">>

\* b is <<>> (no bold element) or <<text>>; t is <<>> (no text node) or the text
RunSamples ==
    { [b |-> <<FN>>, t |-> <<" ", "Jane", " ">>],
      [b |-> <<FN>>, t |-> <<" ", "Erin">>],
      [b |-> <<FN>>, t |-> <<>>],
      [b |-> <<SB>>, t |-> <<" ", "Erin">>],
      [b |-> <<CA>>, t |-> <<" ", "17">>],
      [b |-> << <<"full name:">> >>, t |-> <<" ", "Jane">>],
      [b |-> <<>>, t |-> <<"Full Name:", " ", "Jane">>],
      [b |-> <<>>, t |-> <<"Full Name:", " ">>],
      [b |-> <<>>, t |-> <<"Siblings:", " ", "Erin">>],
      [b |-> <<>>, t |-> <<" ", Long50>>],
      [b |-> <<>>, t |-> <<Long51>>],
      [b |-> <<>>, t |-> <<Long36>>],
      [b |-> <<SB>>, t |-> <<Long51>>] }

Runs == { [blk |-> k, b |-> r.b, t |-> r.t] : k \in {"same", "p", "div"}, r \in RunSamples }

Pages ==
    UNION { { pg \in [1..n -> Runs] : n > 0 => pg[1].blk # "same" } : n \in 0..MaxRuns }

\* first and last run of the enclosing element of run i
BlockStart(pg, i) ==
    CHOOSE j \in 1..i : pg[j].blk # "same" /\ \A k \in (j + 1)..i : pg[k].blk = "same"

BlockEnd(pg, i) ==
    CHOOSE j \in i..Len(pg) :
        /\ \A k \in (i + 1)..j : pg[k].blk = "same"
        /\ j = Len(pg) \/ pg[j + 1].blk # "same"

\* the text of the bold element of run r: Tag.get_text(strip)
BoldText(r, strip) ==
    IF r.b = <<>> THEN <<>> ELSE IF strip THEN Strip(r.b[1]) ELSE r.b[1]

\* Tag.get_text(strip=...) over the runs lo..hi: every string, stripped when asked,
\* joined with no separator
RECURSIVE GetTextRange(_, _, _, _)
GetTextRange(pg, lo, hi, strip) ==
    IF lo > hi THEN <<>>
    ELSE BoldText(pg[lo], strip) \o (IF strip THEN Strip(pg[lo].t) ELSE pg[lo].t)
            \o GetTextRange(pg, lo + 1, hi, strip)

\* parent.get_text(strip=True) for the enclosing element of run i
ParentTextStrip(pg, i) == GetTextRange(pg, BlockStart(pg, i), BlockEnd(pg, i), TRUE)

\* BaseScraper.extract_text(parent): get_text() and then strip()
ExtractTextParent(pg, i) ==
    Strip(GetTextRange(pg, BlockStart(pg, i), BlockEnd(pg, i), FALSE))

(***************************************************************************)
(* DariaScraper's labelled fields.                                         *)
(***************************************************************************)
character_info_keys ==
    << <<"Full Name:">>, <<"Current Age:">>, <<"Current Vocation:">>,
       <<"Season One Age:">>, <<"Season One Vocation:">>, <<"Parents:">>,
       <<"Siblings:">>, <<"First Appearance:">>, <<"Status at end of series:">>,
       <<"Daria on herself:">> >>

Keys == { character_info_keys[i] : i \in 1..Len(character_info_keys) }

\* key.replace(":", "").lower().replace(" ", "_")
CleanKey(key) ==
    CASE key = <<"Full Name:">> -> "full_name"
      [] key = <<"Current Age:">> -> "current_age"
      [] key = <<"Current Vocation:">> -> "current_vocation"
      [] key = <<"Season One Age:">> -> "season_one_age"
      [] key = <<"Season One Vocation:">> -> "season_one_vocation"
      [] key = <<"Parents:">> -> "parents"
      [] key = <<"Siblings:">> -> "siblings"
      [] key = <<"First Appearance:">> -> "first_appearance"
      [] key = <<"Status at end of series:">> -> "status_at_end_of_series"
      [] key = <<"Daria on herself:">> -> "daria_on_herself"

CleanKeys == { CleanKey(k) : k \in Keys }

KeyOf(ck) == CHOOSE k \in Keys : CleanKey(k) = ck

\* for key in character_info_keys: daria_data[clean_key] = ""
EmptyData == [ck \in CleanKeys |-> <<>>]

(***************************************************************************)
(* Strategy 1 of DariaScraper: bold elements.                              *)
(***************************************************************************)
\* the next bold element after run i in document order, 0 when there is none
NextBold(pg, i) ==
    LET later == { j \in (i + 1)..Len(pg) : pg[j].b # <<>> }
    IN  IF later = {} THEN 0 ELSE Min(later)

\* key.lower() in bold_text.lower() and key in parent_text
BoldHit(pg, i, key) ==
    /\ Contains(Lower(BoldText(pg[i], TRUE)), Lower(key))
    /\ Contains(ParentTextStrip(pg, i), key)

\* parent_text.split(key, 1)[1].strip()
BoldValue(pg, i, key) == Strip(SplitAfter(ParentTextStrip(pg, i), key))

\* one iteration of "for bold in find_all(['strong', 'b'])": the loop over the keys
BoldIteration(d, pg, i) ==
    [ck \in CleanKeys |->
        IF BoldHit(pg, i, KeyOf(ck)) THEN BoldValue(pg, i, KeyOf(ck)) ELSE d[ck]]

(***************************************************************************)
(* Strategy 2 of DariaScraper: text nodes matching the key.                *)
(* String 2i-1 is the string of run i's bold element, string 2i is run     *)
(* i's text node.                                                          *)
(***************************************************************************)
StrRun(n) == (n + 1) \div 2

StrAt(pg, n) ==
    IF n % 2 = 1 THEN BoldText(pg[StrRun(n)], FALSE) ELSE pg[StrRun(n)].t

\* element.parent.get_text(strip=True): the bold element for its own string,
\* the enclosing element for a text node
StrParentTextStrip(pg, n) ==
    IF n % 2 = 1 THEN BoldText(pg[StrRun(n)], TRUE) ELSE ParentTextStrip(pg, StrRun(n))

\* find_all(text=re.compile(re.escape(key), re.IGNORECASE))
RegexMatches(pg, key) ==
    { n \in 1..(2 * Len(pg)) :
        StrAt(pg, n) # <<>> /\ Contains(Lower(StrAt(pg, n)), Lower(key)) }

\* the matching strings whose parent text holds the key as written
RegexHits(pg, key) ==
    { n \in RegexMatches(pg, key) : Contains(StrParentTextStrip(pg, n), key) }

RegexValue(pg, n, key) == Strip(SplitAfter(StrParentTextStrip(pg, n), key))

\* the whole loop "for key in character_info_keys" of strategy 2
RegexStrategy(d, pg) ==
    [ck \in CleanKeys |->
        IF d[ck] = <<>> /\ RegexHits(pg, KeyOf(ck)) # {}
        THEN RegexValue(pg, Min(RegexHits(pg, KeyOf(ck))), KeyOf(ck))
        ELSE d[ck]]

(***************************************************************************)
(* Strategy 3 of DariaScraper: paragraphs.                                 *)
(***************************************************************************)
\* the next <p> after run i in document order (its first run), 0 when none
NextPara(pg, i) ==
    LET later == { j \in (i + 1)..Len(pg) : pg[j].blk = "p" }
    IN  IF later = {} THEN 0 ELSE Min(later)

ParaValue(pg, i, key) == Strip(SplitAfter(ParentTextStrip(pg, i), key))

\* one iteration of "for p in find_all('p')": the loop over the keys
ParaIteration(d, pg, i) ==
    [ck \in CleanKeys |->
        IF Contains(ParentTextStrip(pg, i), KeyOf(ck)) /\ d[ck] = <<>>
        THEN ParaValue(pg, i, KeyOf(ck))
        ELSE d[ck]]

(***************************************************************************)
(* The description paragraphs.                                             *)
(***************************************************************************)
\* len() of a token
TokLen(t) ==
    CASE t = Long36 -> 36
      [] t = Long50 -> 50
      [] t = Long51 -> 51
      [] t \in {"Full Name:", "full name:"} -> 10
      [] t = "Current Age:" -> 12
      [] t = "Siblings:" -> 9
      [] t \in {"Jane", "Erin"} -> 4
      [] t = "17" -> 2
      [] t = " " -> 1

\* len(text)
RECURSIVE CharLen(_)
CharLen(s) == IF s = <<>> THEN 0 ELSE TokLen(Head(s)) + CharLen(Tail(s))

\* "if text and len(text) > 50"
MinDescriptionLen == 50

\* the test a paragraph passes to be appended: long enough, and no key in it
IsDescription(text) ==
    /\ text # <<>>
    /\ CharLen(text) > MinDescriptionLen
    /\ ~\E key \in Keys : Contains(text, key)

\* the loop "for p in daria_soup.select('p')" from the paragraph after run i on
RECURSIVE DescriptionFrom(_, _)
DescriptionFrom(pg, i) ==
    IF NextPara(pg, i) = 0 THEN <<>>
    ELSE (IF IsDescription(ParentTextStrip(pg, NextPara(pg, i)))
          THEN <<ParentTextStrip(pg, NextPara(pg, i))>>
          ELSE <<>>)
            \o DescriptionFrom(pg, NextPara(pg, i))

Description(pg) == DescriptionFrom(pg, 0)

(***************************************************************************)
(* CharacterScraper._extract_character_name                                *)
(***************************************************************************)
\* split on "Full Name:", strip, cut at "Current Age:" when it follows
CleanFullName(parent_text) ==
    LET full_name == Strip(SplitAfter(parent_text, FN))
    IN  IF Contains(full_name, CA) THEN Strip(SplitBefore(full_name, CA)) ELSE full_name

\* bold elements whose text and whose parent's text hold "Full Name:"
NameBoldHits(pg) ==
    { i \in 1..Len(pg) :
        /\ pg[i].b # <<>>
        /\ Contains(Strip(BoldText(pg[i], FALSE)), FN)
        /\ Contains(ExtractTextParent(pg, i), FN) }

\* extract_text of the parent of string n
StrParentExtractText(pg, n) ==
    IF n % 2 = 1 THEN Strip(BoldText(pg[StrRun(n)], FALSE))
    ELSE ExtractTextParent(pg, StrRun(n))

NameRegexHits(pg) ==
    { n \in RegexMatches(pg, FN) : Contains(StrParentExtractText(pg, n), FN) }

\* the full_name the method leaves in the model ("" when nothing is found)
ExtractCharacterName(pg) ==
    IF NameBoldHits(pg) # {}
    THEN CleanFullName(ExtractTextParent(pg, Min(NameBoldHits(pg))))
    ELSE IF NameRegexHits(pg) # {}
    THEN CleanFullName(StrParentExtractText(pg, Min(NameRegexHits(pg))))
    ELSE <<>>

NoCharacter == [absent |-> TRUE]
NotRun == [pending |-> TRUE]
NoDoc == [root |-> "none", kids |-> <<>>]
NoPos == [kind |-> "none", i |-> 0, j |-> 0]

\* Python's None where the empty string is a value of its own
None == <<"None">>

\* the pipeline is not running
PipeIdle ==
    /\ ppc = "idle"
    /\ retry_count = 0
    /\ requests = <<>>
    /\ result = NotRun
    /\ charResult = NotRun

\* the alter-egos link resolvers have not run
AlterIdle ==
    /\ detailLinks = <<>>
    /\ aeResult = NotRun
    /\ aeIdx = 0
    /\ alter_egos_link = None
    /\ alter_egos_fragment = None

(***************************************************************************)
(* The field extractor as a state machine.                                 *)
(***************************************************************************)
FieldsInit ==
    /\ page \in Pages
    /\ fphase = "bold"
    /\ fidx = 0
    /\ data = EmptyData
    /\ character = NoCharacter
    /\ description = <<>>
    /\ listing = <<>>
    /\ target = <<>>
    /\ charLink = NotRun
    /\ mainIdx = 0
    /\ mainLink = <<>>
    /\ doc = NoDoc
    /\ fragment = <<>>
    /\ impl = "none"
    /\ aeBase = <<>>
    /\ ipc = "idle"
    /\ start = NoPos
    /\ cur = NoPos
    /\ images = <<>>
    /\ AlterIdle
    /\ PipeIdle

\* main.py: one iteration of the loop over the bold elements
MainBoldStep ==
    /\ fphase = "bold"
    /\ NextBold(page, fidx) # 0
    /\ data' = BoldIteration(data, page, NextBold(page, fidx))
    /\ fidx' = NextBold(page, fidx)
    /\ UNCHANGED <<page, fphase, character, description, linkVars, imageVars, alterVars, pipeVars>>

\* main.py: the bold elements are exhausted; the text-node strategy runs
MainRegexStrategy ==
    /\ fphase = "bold"
    /\ NextBold(page, fidx) = 0
    /\ data' = RegexStrategy(data, page)
    /\ fphase' = "para"
    /\ fidx' = 0
    /\ UNCHANGED <<page, character, description, linkVars, imageVars, alterVars, pipeVars>>

\* main.py: one iteration of the loop over the paragraphs
MainParaStep ==
    /\ fphase = "para"
    /\ NextPara(page, fidx) # 0
    /\ data' = ParaIteration(data, page, NextPara(page, fidx))
    /\ fidx' = NextPara(page, fidx)
    /\ UNCHANGED <<page, fphase, character, description, linkVars, imageVars, alterVars, pipeVars>>

\* main.py: the paragraphs are exhausted; the description is collected
MainDescription ==
    /\ fphase = "para"
    /\ NextPara(page, fidx) = 0
    /\ description' = Description(page)
    /\ fphase' = "done"
    /\ UNCHANGED <<page, fidx, data, character, linkVars, imageVars, alterVars, pipeVars>>

\* CharacterScraper.scrape_character_info on the same page
ScrapeCharacterInfo ==
    /\ character = NoCharacter
    /\ character' = [full_name |-> ExtractCharacterName(page)]
    /\ UNCHANGED <<page, fphase, fidx, data, description, linkVars, imageVars, alterVars, pipeVars>>

FieldsNext ==
    \/ MainBoldStep
    \/ MainRegexStrategy
    \/ MainParaStep
    \/ MainDescription
    \/ ScrapeCharacterInfo

SpecFields == FieldsInit /\ [][FieldsNext]_vars

\* the bold loop has finished and nothing else has run
BoldStrategyDone == fphase = "bold" /\ NextBold(page, fidx) = 0

\* all three strategies have finished
FieldsDone == (fphase = "para" /\ NextPara(page, fidx) = 0) \/ fphase = "done"

(***************************************************************************)
(* URLs: urllib.parse.urljoin on token sequences.  A URL is written        *)
(* scheme token, "//", host tokens, path tokens, "#", fragment tokens.     *)
(***************************************************************************)
SchemeToks == {"https:", "http:", "mailto:", "javascript:"}

\* urllib.parse.uses_relative and uses_netloc, as far as the samples go
UsesRelative == {"https:", "http:"}

\* TARGETS[0]["base_url"]
BaseUrl == <<"https:", "//", "outpost-daria-reborn.info">>

\* the index of the first token of s at or after position i that is in stop,
\* Len(s) + 1 when there is none
RECURSIVE FirstIn(_, _, _)
FirstIn(s, i, stop) ==
    IF i > Len(s) THEN Len(s) + 1
    ELSE IF s[i] \in stop THEN i
    ELSE FirstIn(s, i + 1, stop)

\* urlparse(url): scheme, netloc, path, fragment
UrlParse(u) ==
    LET scheme == IF u # <<>> /\ u[1] \in SchemeToks THEN u[1] ELSE ""
        r1 == IF scheme = "" THEN u ELSE Tail(u)
        auth == r1 # <<>> /\ r1[1] = "//"
        r2 == IF auth THEN Tail(r1) ELSE r1
        nEnd == IF auth THEN FirstIn(r2, 1, {"/", "#"}) ELSE 1
        r3 == SubSeq(r2, nEnd, Len(r2))
        hash == FirstIn(r3, 1, {"#"})
    IN  [scheme |-> scheme,
         netloc |-> SubSeq(r2, 1, nEnd - 1),
         path |-> SubSeq(r3, 1, hash - 1),
         fragment |-> SubSeq(r3, hash + 1, Len(r3))]

\* urlunparse for a scheme that uses a netloc
UrlUnparse(scheme, netloc, path, frag) ==
    <<scheme, "//">> \o netloc
        \o (IF path # <<>> /\ path[1] # "/" THEN <<"/">> ELSE <<>>) \o path
        \o (IF frag = <<>> THEN <<>> ELSE <<"#">> \o frag)

\* the base path up to and with its last "/", "/" when it has none
RECURSIVE BaseDir(_)
BaseDir(bpath) ==
    IF bpath = <<>> THEN <<"/">>
    ELSE IF bpath[Len(bpath)] = "/" THEN bpath
    ELSE BaseDir(SubSeq(bpath, 1, Len(bpath) - 1))

\* urljoin(base, url); base <<>> is a base of None or ""
UrlJoin(base, url) ==
    IF base = <<>> THEN url
    ELSE IF url = <<>> THEN base
    ELSE LET b == UrlParse(base)
             p == UrlParse(url)
             scheme == IF p.scheme = "" THEN b.scheme ELSE p.scheme
         IN  IF scheme # b.scheme \/ scheme \notin UsesRelative THEN url
             ELSE IF p.netloc # <<>>
             THEN UrlUnparse(scheme, p.netloc, p.path, p.fragment)
             ELSE IF p.path = <<>>
             THEN UrlUnparse(scheme, b.netloc, b.path, p.fragment)
             ELSE IF p.path[1] = "/"
             THEN UrlUnparse(scheme, b.netloc, p.path, p.fragment)
             ELSE UrlUnparse(scheme, b.netloc, BaseDir(b.path) \o p.path, p.fragment)

\* Http.build_url
BuildUrl(base_url, path) == UrlJoin(base_url, path)

\* BaseScraper.build_full_url of CharacterScraper: base_url is TARGETS[0]["base_url"]
BuildFullUrl(path) == BuildUrl(BaseUrl, path)

\* href.startswith(('http://', 'https://'))
StartsWithHttp(u) == Len(u) >= 2 /\ u[1] \in {"http:", "https:"} /\ u[2] = "//"

\* main.py: if not href.startswith(('http://', 'https://')): href = urljoin(base_url, href)
MainResolve(href) == IF StartsWithHttp(href) THEN href ELSE UrlJoin(BaseUrl, href)

\* a scheme and a host
IsAbsolute(u) == UrlParse(u).scheme # "" /\ UrlParse(u).netloc # <<>>

(***************************************************************************)
(* The listing page and the link resolvers.  A hyperlink is its href       *)
(* (<<>> when the attribute is missing or empty) and its text.             *)
(***************************************************************************)
LinkSamples ==
    { [href |-> <<"ch_", "daria", ".html">>, text |-> <<"Daria">>],
      [href |-> <<"ch_", "quinn", ".html">>, text |-> <<" ", "DARIA", " ">>],
      [href |-> <<"fans", ".html">>, text |-> <<"Fans of", " ", "Daria">>],
      [href |-> <<>>, text |-> <<"Daria">>],
      [href |-> <<"https:", "//", "outpost-daria-reborn.info", "/", "ch_", "daria", ".html">>,
       text |-> <<"Morgendorffer">>],
      [href |-> <<"ch_", "jane", ".html">>, text |-> <<"Jane">>],
      [href |-> <<"ch_", "jane", "lane", ".html">>, text |-> <<"Jane">>] }

Listings == UNION { [1..n -> LinkSamples] : n \in 0..MaxLinks }

TargetNames == { <<"Daria">>, <<"Jane", " ", "Lane">> }

\* BaseScraper.extract_text(link)
LinkText(l) == Strip(l.text)

\* f"ch_{character_name.lower()}.html"
HrefPattern(character_name) == <<"ch_">> \o Lower(character_name) \o <<".html">>

\* the hyperlinks find_link_by_href accepts
HrefMatches(links, href_pattern) ==
    { i \in 1..Len(links) : links[i].href # <<>> /\ Contains(links[i].href, href_pattern) }

\* BaseScraper.find_link_by_href (<<>> is None)
FindLinkByHref(links, href_pattern) ==
    IF HrefMatches(links, href_pattern) = {} THEN <<>>
    ELSE BuildFullUrl(links[Min(HrefMatches(links, href_pattern))].href)

\* the hyperlinks find_link_by_text returns from: the text matches and href is set
TextMatches(links, text, partial) ==
    { i \in 1..Len(links) :
        /\ \/ partial /\ Contains(Lower(LinkText(links[i])), Lower(text))
           \/ ~partial /\ Lower(text) = Lower(LinkText(links[i]))
        /\ links[i].href # <<>> }

\* BaseScraper.find_link_by_text
FindLinkByText(links, text, partial) ==
    IF TextMatches(links, text, partial) = {} THEN <<>>
    ELSE BuildFullUrl(links[Min(TextMatches(links, text, partial))].href)

\* the default of find_link_by_text's partial parameter, which the caller leaves
DefaultPartial == TRUE

\* CharacterScraper.find_character_link once the listing page is parsed
FindCharacterLink(links, character_name) ==
    LET character_link == FindLinkByHref(links, HrefPattern(character_name))
    IN  IF character_link = <<>>
        THEN FindLinkByText(links, character_name, DefaultPartial)
        ELSE character_link

\* main.py step 2: href and ("ch_daria.html" in href or text.lower() == "daria")
MainLinkMatch(l) ==
    /\ l.href # <<>>
    /\ \/ Contains(l.href, <<"ch_", "daria", ".html">>)
       \/ Lower(Strip(l.text)) = <<"daria">>

LinksInit ==
    /\ listing \in Listings
    /\ target \in TargetNames
    /\ charLink = NotRun
    /\ mainIdx = 0
    /\ mainLink = <<>>
    /\ page = <<>>
    /\ fphase = "idle"
    /\ fidx = 0
    /\ data = EmptyData
    /\ character = NoCharacter
    /\ description = <<>>
    /\ doc = NoDoc
    /\ fragment = <<>>
    /\ impl = "none"
    /\ aeBase = <<>>
    /\ ipc = "idle"
    /\ start = NoPos
    /\ cur = NoPos
    /\ images = <<>>
    /\ AlterIdle
    /\ PipeIdle

\* CharacterScraper.find_character_link
CharFindCharacterLink ==
    /\ charLink = NotRun
    /\ charLink' = [url |-> FindCharacterLink(listing, target)]
    /\ UNCHANGED <<listing, target, mainIdx, mainLink, fieldVars, imageVars, alterVars, pipeVars>>

\* main.py step 2: one iteration of "for link in soup.select('a')"; a match
\* sets daria_link and leaves the loop
MainLinkStep ==
    /\ mainLink = <<>>
    /\ mainIdx < Len(listing)
    /\ mainIdx' = mainIdx + 1
    /\ mainLink' = IF MainLinkMatch(listing[mainIdx + 1])
                   THEN MainResolve(listing[mainIdx + 1].href)
                   ELSE <<>>
    /\ UNCHANGED <<listing, target, charLink, fieldVars, imageVars, alterVars, pipeVars>>

LinksNext == CharFindCharacterLink \/ MainLinkStep

SpecLinks == LinksInit /\ [][LinksNext]_vars

\* main.py step 2 has left its loop
MainLinkDone == mainLink # <<>> \/ mainIdx = Len(listing)

(***************************************************************************)
(* The alter-egos page.  The document is a root element (<body>, or a      *)
(* <div> that wraps the content) and its children in document order.  A    *)
(* child is an element with its tag, id, name attribute, text, an optional *)
(* named anchor nested in it (its first child, holding the element's       *)
(* text), and the images below it; a bare <img> child of the root is a     *)
(* node of tag "img" that carries itself in self.                          *)
(* An image is its src, alt, the text of its parent element, whether it    *)
(* sits inside a hyperlink and that hyperlink's href, and its width and    *)
(* height attributes; <<>> and "" stand for a missing attribute.           *)
(***************************************************************************)
MkImg(src) ==
    [src |-> src, alt |-> <<>>, ptext |-> <<>>, linked |-> FALSE, href |-> <<>>,
     width |-> "", height |-> ""]

MkNode(tag, id, name, text, anchor, self, imgs) ==
    [tag |-> tag, id |-> id, name |-> name, text |-> text, anchor |-> anchor,
     self |-> self, imgs |-> imgs]

DariaImg1 == MkImg(<<"daria", "_", "1", ".jpg">>)
DariaImg2 == MkImg(<<"daria", "_", "2", ".jpg">>)
OtherImg == MkImg(<<"other", ".jpg">>)

\* a NavigableString between two tags: whitespace
TextNode == MkNode("#text", <<>>, <<>>, <<" ">>, <<>>, <<>>, <<>>)

WalkNodes ==
    { MkNode("a", <<>>, <<"daria">>, <<>>, <<>>, <<>>, <<>>),
      MkNode("a", <<"daria">>, <<>>, <<>>, <<>>, <<>>, <<>>),
      MkNode("img", <<>>, <<>>, <<>>, <<>>, <<DariaImg1>>, <<>>),
      MkNode("img", <<>>, <<>>, <<>>, <<>>, <<OtherImg>>, <<>>),
      MkNode("p", <<>>, <<>>, <<>>, <<>>, <<>>, <<OtherImg>>),
      MkNode("h2", <<>>, <<>>, <<"Next">>, <<>>, <<>>, <<>>),
      MkNode("h2", <<"daria">>, <<>>, <<"Daria">>, <<>>, <<>>, <<>>),
      MkNode("p", <<>>, <<>>, <<>>, <<"daria">>, <<>>, <<DariaImg2>>),
      TextNode }

RootTags == {"body", "div"}

\* an element that the lookup of a fragment can find
IsMarker(n) == n.id # <<>> \/ n.name # <<>> \/ n.anchor # <<>>

\* ids and anchor names are unique in a document
UniqueMarkers(k) ==
    \A i, j \in 1..Len(k) : (i # j /\ IsMarker(k[i])) => k[i] # k[j]

WalkKids ==
    UNION { { k \in [1..n -> WalkNodes] : UniqueMarkers(k) } : n \in 0..MaxKids }

WalkDocs == { [root |-> r, kids |-> k] : r \in RootTags, k \in WalkKids }

\* images for the whole-page scans: each sits alone in a <p>
ScanImgs ==
    { DariaImg1,
      OtherImg,
      [OtherImg EXCEPT !.alt = <<"Daria", " ", "again">>],
      [OtherImg EXCEPT !.ptext = <<" ", "DARIA", " ">>, !.width = "100", !.height = "80"],
      [MkImg(<<>>) EXCEPT !.alt = <<"Daria">>],
      [DariaImg2 EXCEPT !.linked = TRUE, !.href = <<"big", ".html">>, !.width = "100"],
      [OtherImg EXCEPT !.linked = TRUE],
      [MkImg(<<"https:", "//", "outpost-daria-reborn.info", "/", "img", "/", "daria", ".png">>)
          EXCEPT !.linked = TRUE, !.href = <<"mailto:", "fan">>] }

ScanNodes == { MkNode("p", <<>>, <<>>, i.ptext, <<>>, <<>>, <<i>>) : i \in ScanImgs }

ScanDocs ==
    { [root |-> "body", kids |-> k] : k \in UNION { [1..n -> ScanNodes] : n \in 0..MaxImgs } }

\* what config.get('alter_ego_base_url') can give AlterEgoScraper.base_url: the
\* site's base URL, or None (config.py defines no such setting)
AlterEgoBases == { BaseUrl, <<>> }

\* the full_name of the Character given to CharacterScraper.scrape_alter_egos
FullNames == { <<"Daria", " ", "Morgendorffer">> }

\* extract_text of the root: the text of every child, stripped
RECURSIVE KidsText(_, _)
KidsText(kids, i) ==
    IF i > Len(kids) THEN <<>> ELSE kids[i].text \o KidsText(kids, i + 1)

RootText(d) == Strip(KidsText(d.kids, 1))

\* the images at and below child i; a bare image's parent is the root
NodeSelfImgs(d, i) ==
    [k \in 1..Len(d.kids[i].self) |-> [d.kids[i].self[k] EXCEPT !.ptext = RootText(d)]]

\* soup.find_all('img')
RECURSIVE AllImgsFrom(_, _)
AllImgsFrom(d, i) ==
    IF i > Len(d.kids) THEN <<>>
    ELSE NodeSelfImgs(d, i) \o d.kids[i].imgs \o AllImgsFrom(d, i + 1)

AllImgs(d) == AllImgsFrom(d, 1)

(***************************************************************************)
(* Image references.                                                       *)
(***************************************************************************)
\* "link", "width", "height" of one image, the link resolved against base
ImageData(link, img) == [link |-> link, width |-> img.width, height |-> img.height]

\* parent_link and parent_link.get('href')
HasParentHref(img) == img.linked /\ img.href # <<>>

\* AlterEgoScraper._extract_image_data, for an image that has a src
ExtractImageData(base, img) ==
    IF HasParentHref(img)
    THEN ImageData(BuildUrl(base, img.href), img)
    ELSE ImageData(BuildUrl(base, img.src), img)

\* a collection that keeps one reference of an image that occurs again later
RECURSIVE ExtractImagesOnce(_, _)
ExtractImagesOnce(base, imgs) ==
    IF imgs = <<>> THEN <<>>
    ELSE (IF \/ Head(imgs).src = <<>>
             \/ \E k \in 1..Len(Tail(imgs)) : Tail(imgs)[k] = Head(imgs)
          THEN <<>>
          ELSE <<ExtractImageData(base, Head(imgs))>>)
            \o ExtractImagesOnce(base, Tail(imgs))

\* the loops "for img in ...: image_data = ...; if image_data: append"
RECURSIVE ExtractImages(_, _)
ExtractImages(base, imgs) ==
    IF imgs = <<>> THEN <<>>
    ELSE (IF Head(imgs).src = <<>> THEN <<>> ELSE <<ExtractImageData(base, Head(imgs))>>)
            \o ExtractImages(base, Tail(imgs))

\* main.py: the body of "for img in current.find_all('img')" for one image
MainImageData(img) ==
    IF HasParentHref(img)
    THEN ImageData(MainResolve(img.href), img)
    ELSE ImageData(MainResolve(img.src), img)

RECURSIVE MainExtractImages(_)
MainExtractImages(imgs) ==
    IF imgs = <<>> THEN <<>>
    ELSE (IF Head(imgs).src = <<>> THEN <<>> ELSE <<MainImageData(Head(imgs))>>)
            \o MainExtractImages(Tail(imgs))

\* a name test that looks at the src alone
NameMatchSrcOnly(img, character_name) ==
    Contains(Lower(img.src), Lower(character_name))

\* AlterEgoScraper._extract_images_by_character_name: the test an image passes,
\* on its src or alt, or else on the text of its parent
NameMatch(img, character_name) ==
    \/ Contains(Lower(img.src), Lower(character_name))
    \/ Contains(Lower(img.alt), Lower(character_name))
    \/ Contains(Lower(Strip(img.ptext)), Lower(character_name))

RECURSIVE SelectNameMatch(_, _)
SelectNameMatch(imgs, character_name) ==
    IF imgs = <<>> THEN <<>>
    ELSE (IF NameMatch(Head(imgs), character_name) THEN <<Head(imgs)>> ELSE <<>>)
            \o SelectNameMatch(Tail(imgs), character_name)

\* AlterEgoScraper._extract_images_by_character_name
ExtractImagesByCharacterName(base, d, character_name) ==
    ExtractImages(base, SelectNameMatch(AllImgs(d), character_name))

\* a whole-page collection that keeps the images named after Daria
ExtractAllImagesNamed(base, d) == ExtractImagesByCharacterName(base, d, <<"daria">>)

\* AlterEgoScraper._extract_all_images
ExtractAllImages(base, d) == ExtractImages(base, AllImgs(d))

\* main.py fallback: src and 'daria' in src.lower()
MainNameMatch(img) == img.src # <<>> /\ Contains(Lower(img.src), <<"daria">>)

RECURSIVE SelectMainNameMatch(_)
SelectMainNameMatch(imgs) ==
    IF imgs = <<>> THEN <<>>
    ELSE (IF MainNameMatch(Head(imgs)) THEN <<Head(imgs)>> ELSE <<>>)
            \o SelectMainNameMatch(Tail(imgs))

MainFallbackImages(d) == MainExtractImages(SelectMainNameMatch(AllImgs(d)))

(***************************************************************************)
(* Locating the section.                                                   *)
(***************************************************************************)
NodePos(i) == [kind |-> "node", i |-> i, j |-> 0]
InnerPos(i, j) == [kind |-> "inner", i |-> i, j |-> j]
RootPos == [kind |-> "root", i |-> 0, j |-> 0]

\* soup.find(id=fragment)
FindById(d, frag) ==
    LET hits == { i \in 1..Len(d.kids) : d.kids[i].id = frag }
    IN  IF hits = {} THEN NoPos ELSE NodePos(Min(hits))

\* soup.find("a", {"name": fragment}): a child <a>, or the anchor nested in a child
FindAnchor(d, frag) ==
    LET hits == { i \in 1..Len(d.kids) :
                    \/ d.kids[i].tag = "a" /\ d.kids[i].name = frag
                    \/ d.kids[i].anchor = frag }
        i == Min(hits)
    IN  IF hits = {} THEN NoPos
        ELSE IF d.kids[i].tag = "a" /\ d.kids[i].name = frag THEN NodePos(i)
        ELSE InnerPos(i, 0)

\* find by id first, by named anchor second
FindByIdOrAnchor(d, frag) ==
    IF FindById(d, frag) # NoPos THEN FindById(d, frag) ELSE FindAnchor(d, frag)

\* element.name
PosTag(d, pos) ==
    CASE pos.kind = "root" -> d.root
      [] pos.kind = "node" -> d.kids[pos.i].tag
      [] pos.kind = "inner" -> "a"
      [] OTHER -> "none"

\* element.parent
PosParent(pos) == IF pos.kind = "inner" THEN NodePos(pos.i) ELSE RootPos

\* a lookup that returns the element found, an anchor included
FindCharacterSectionNoParent(d, frag) == FindByIdOrAnchor(d, frag)

\* AlterEgoScraper._find_character_section
FindCharacterSection(d, frag) ==
    LET section == FindByIdOrAnchor(d, frag)
    IN  IF section # NoPos /\ PosTag(d, section) = "a"
        THEN IF PosTag(d, PosParent(section)) # "body" THEN PosParent(section) ELSE section
        ELSE section

\* CharacterScraper.scrape_alter_egos: the element whose images are taken
CharSection(d, frag) ==
    LET byId == IF frag # <<>> THEN FindById(d, frag) ELSE NoPos
        byName == IF frag # <<>> /\ byId = NoPos THEN FindAnchor(d, frag) ELSE NoPos
    IN  IF byId # NoPos THEN byId
        ELSE IF byName # NoPos THEN PosParent(byName)
        ELSE RootPos

(***************************************************************************)
(* The section walk.                                                       *)
(***************************************************************************)
\* current.next_sibling; the children of a nested anchor's parent after the
\* anchor are the parent's images, each bare or wrapped in its hyperlink
NextSibling(d, pos) ==
    CASE pos.kind = "node" -> IF pos.i < Len(d.kids) THEN NodePos(pos.i + 1) ELSE NoPos
      [] pos.kind = "inner" ->
            IF pos.j < Len(d.kids[pos.i].imgs) THEN InnerPos(pos.i, pos.j + 1) ELSE NoPos
      [] OTHER -> NoPos

\* current != section: Tag equality compares name, attributes and contents
SameElement(d, a, b) ==
    IF a.kind = "node" /\ b.kind = "node" THEN d.kids[a.i] = d.kids[b.i] ELSE a = b

\* a boundary test that takes a heading of any level, with or without text
IsHeadingOfAnyKind(d, pos) ==
    /\ pos.kind = "node"
    /\ d.kids[pos.i].tag \in {"h1", "h2", "h3", "h4", "h5", "h6"}

\* current.name in ['h1', 'h2', 'h3', 'h4'] and the element has text
IsHeadingWithText(d, pos) ==
    /\ pos.kind = "node"
    /\ d.kids[pos.i].tag \in {"h1", "h2", "h3", "h4"}
    /\ Strip(d.kids[pos.i].text) # <<>>

\* the test that ends the walk
IsBoundary(d, section, pos) == ~SameElement(d, pos, section) /\ IsHeadingWithText(d, pos)

\* current.find_all('img'): the images below the element, never the element itself
PosImgs(d, pos) ==
    CASE pos.kind = "root" -> AllImgs(d)
      [] pos.kind = "node" -> d.kids[pos.i].imgs
      [] pos.kind = "inner" ->
            IF pos.j > 0 /\ d.kids[pos.i].imgs[pos.j].linked
            THEN <<d.kids[pos.i].imgs[pos.j]>>
            ELSE <<>>
      [] OTHER -> <<>>

\* CharacterScraper._get_character_id: the first word of the full name, lower-cased
FirstWord(s) == SubSeq(LStrip(s), 1, FirstIn(LStrip(s), 1, Whitespace) - 1)

GetCharacterId(full_name) == IF full_name = <<>> THEN <<>> ELSE Lower(FirstWord(full_name))

\* src and f"{character_id}_" in src.lower()
CharIdMatch(img, character_id) ==
    img.src # <<>> /\ Contains(Lower(img.src), character_id \o <<"_">>)

\* the loop of CharacterScraper.scrape_alter_egos: the images that pass are
\* kept, and the src alone is resolved
RECURSIVE CharImageInfos(_, _)
CharImageInfos(imgs, character_id) ==
    IF imgs = <<>> THEN <<>>
    ELSE (IF CharIdMatch(Head(imgs), character_id)
          THEN <<ImageData(BuildFullUrl(Head(imgs).src), Head(imgs))>>
          ELSE <<>>)
            \o CharImageInfos(Tail(imgs), character_id)

CharScrapeImages(d, frag, full_name) ==
    CharImageInfos(PosImgs(d, CharSection(d, frag)), GetCharacterId(full_name))

(***************************************************************************)
(* The image collectors as a state machine.                                *)
(***************************************************************************)
ImagesInit ==
    /\ \/ doc \in WalkDocs /\ fragment = <<"daria">>
       \/ doc \in ScanDocs /\ fragment \in {<<>>, <<"daria">>}
    /\ \/ impl = "alter_ego" /\ aeBase \in AlterEgoBases
       \/ impl \in {"main", "character"} /\ aeBase = <<>>
    /\ ipc = "start"
    /\ start = NoPos
    /\ cur = NoPos
    /\ images = <<>>
    /\ character = [full_name |-> CHOOSE n \in FullNames : TRUE]
    /\ description = <<>>
    /\ page = <<>>
    /\ fphase = "idle"
    /\ fidx = 0
    /\ data = EmptyData
    /\ listing = <<>>
    /\ target = <<>>
    /\ charLink = NotRun
    /\ mainIdx = 0
    /\ mainLink = <<>>
    /\ AlterIdle
    /\ PipeIdle

\* AlterEgoScraper.scrape_alter_egos: a fragment whose section is found
AEFindSection ==
    /\ impl = "alter_ego" /\ ipc = "start"
    /\ fragment # <<>>
    /\ FindCharacterSection(doc, fragment) # NoPos
    /\ start' = FindCharacterSection(doc, fragment)
    /\ cur' = FindCharacterSection(doc, fragment)
    /\ ipc' = "walk"
    /\ UNCHANGED <<doc, fragment, impl, aeBase, images, fieldVars, linkVars, alterVars, pipeVars>>

\* AlterEgoScraper.scrape_alter_egos: a fragment whose section is not found
AEFallbackByName ==
    /\ impl = "alter_ego" /\ ipc = "start"
    /\ fragment # <<>>
    /\ FindCharacterSection(doc, fragment) = NoPos
    /\ images' = ExtractImagesByCharacterName(aeBase, doc, fragment)
    /\ ipc' = "done"
    /\ UNCHANGED <<doc, fragment, impl, aeBase, start, cur, fieldVars, linkVars, alterVars, pipeVars>>

\* AlterEgoScraper.scrape_alter_egos: no fragment
AEExtractAll ==
    /\ impl = "alter_ego" /\ ipc = "start"
    /\ fragment = <<>>
    /\ images' = ExtractAllImages(aeBase, doc)
    /\ ipc' = "done"
    /\ UNCHANGED <<doc, fragment, impl, aeBase, start, cur, fieldVars, linkVars, alterVars, pipeVars>>

\* main.py step 5: the section is found by id or by named anchor
MainFindSection ==
    /\ impl = "main" /\ ipc = "start"
    /\ fragment # <<>>
    /\ FindByIdOrAnchor(doc, fragment) # NoPos
    /\ start' = FindByIdOrAnchor(doc, fragment)
    /\ cur' = FindByIdOrAnchor(doc, fragment)
    /\ ipc' = "walk"
    /\ UNCHANGED <<doc, fragment, impl, aeBase, images, fieldVars, linkVars, alterVars, pipeVars>>

\* main.py step 5: no fragment, or no section for it
MainFallback ==
    /\ impl = "main" /\ ipc = "start"
    /\ fragment = <<>> \/ FindByIdOrAnchor(doc, fragment) = NoPos
    /\ images' = MainFallbackImages(doc)
    /\ ipc' = "done"
    /\ UNCHANGED <<doc, fragment, impl, aeBase, start, cur, fieldVars, linkVars, alterVars, pipeVars>>

\* one iteration of "while current and in_section" that collects and moves on;
\* the loop ends when the siblings are exhausted
WalkStep ==
    /\ ipc = "walk"
    /\ ~IsBoundary(doc, start, cur)
    /\ PosTag(doc, cur) # "#text"
    /\ images' = images \o (IF impl = "main" THEN MainExtractImages(PosImgs(doc, cur))
                            ELSE ExtractImages(aeBase, PosImgs(doc, cur)))
    /\ cur' = NextSibling(doc, cur)
    /\ ipc' = IF NextSibling(doc, cur) = NoPos THEN "done" ELSE "walk"
    /\ UNCHANGED <<doc, fragment, impl, aeBase, start, fieldVars, linkVars, alterVars, pipeVars>>

\* the iteration that meets a heading: in_section = False; break
WalkBoundary ==
    /\ ipc = "walk"
    /\ IsBoundary(doc, start, cur)
    /\ ipc' = "done"
    /\ UNCHANGED <<doc, fragment, impl, aeBase, start, cur, images, fieldVars, linkVars, alterVars, pipeVars>>

\* the iteration that meets a text node: a NavigableString is no heading (its
\* name is None) and has no find_all, so current.find_all('img') raises
\* AttributeError, which nothing catches
WalkRaise ==
    /\ ipc = "walk"
    /\ ~IsBoundary(doc, start, cur)
    /\ PosTag(doc, cur) = "#text"
    /\ ipc' = "raised"
    /\ UNCHANGED <<doc, fragment, impl, aeBase, start, cur, images, fieldVars, linkVars,
                   alterVars, pipeVars>>

\* CharacterScraper.scrape_alter_egos once the page is parsed
CharScrapeAlterEgos ==
    /\ impl = "character" /\ ipc = "start"
    /\ images' = CharScrapeImages(doc, fragment, character.full_name)
    /\ ipc' = "done"
    /\ UNCHANGED <<doc, fragment, impl, aeBase, start, cur, fieldVars, linkVars, alterVars, pipeVars>>

ImagesNext ==
    \/ AEFindSection
    \/ AEFallbackByName
    \/ AEExtractAll
    \/ MainFindSection
    \/ MainFallback
    \/ WalkStep
    \/ WalkBoundary
    \/ WalkRaise
    \/ CharScrapeAlterEgos

SpecImages == ImagesInit /\ [][ImagesNext]_vars

(***************************************************************************)
(* The section walk over headings of every level: the same collectors run  *)
(* on pages whose section starts at a heading and is followed by headings  *)
(* of levels 1 to 6, with and without text.                                *)
(***************************************************************************)
HeadingNodes ==
    { MkNode("h2", <<"daria">>, <<>>, <<"Daria">>, <<>>, <<>>, <<>>),
      MkNode("p", <<>>, <<>>, <<>>, <<>>, <<>>, <<DariaImg1>>),
      MkNode("h1", <<>>, <<>>, <<"Next">>, <<>>, <<>>, <<>>),
      MkNode("h4", <<>>, <<>>, <<"End">>, <<>>, <<>>, <<>>),
      MkNode("h5", <<>>, <<>>, <<"More">>, <<>>, <<>>, <<>>),
      MkNode("h6", <<>>, <<>>, <<"Less">>, <<>>, <<>>, <<>>),
      MkNode("h3", <<>>, <<>>, <<" ">>, <<>>, <<>>, <<>>),
      TextNode }

HeadingDocs ==
    { [root |-> "body", kids |-> k] :
        k \in UNION { { x \in [1..n -> HeadingNodes] : UniqueMarkers(x) } : n \in 0..MaxKids } }

HeadingsInit ==
    /\ doc \in HeadingDocs
    /\ fragment \in {<<>>, <<"daria">>}
    /\ \/ impl = "alter_ego" /\ aeBase = BaseUrl
       \/ impl \in {"main", "character"} /\ aeBase = <<>>
    /\ ipc = "start"
    /\ start = NoPos
    /\ cur = NoPos
    /\ images = <<>>
    /\ character = [full_name |-> CHOOSE n \in FullNames : TRUE]
    /\ description = <<>>
    /\ page = <<>>
    /\ fphase = "idle"
    /\ fidx = 0
    /\ data = EmptyData
    /\ listing = <<>>
    /\ target = <<>>
    /\ charLink = NotRun
    /\ mainIdx = 0
    /\ mainLink = <<>>
    /\ AlterIdle
    /\ PipeIdle

SpecHeadings == HeadingsInit /\ [][ImagesNext]_vars

(***************************************************************************)
(* The alter-egos link of the detail page.  A hyperlink is its href, a     *)
(* token sequence in which "#" is a token of its own (<<>> when the        *)
(* attribute is missing or empty).                                         *)
(***************************************************************************)
AlterMarker == <<"art_alter-egos.html">>

AlterHrefs ==
    { <<"art_alter-egos.html", "#", "daria">>,
      <<"art_alter-egos.html">>,
      <<"art_alter-egos.html", "#">>,
      <<"art_alter-egos.html", "#", "daria", "#", "2">>,
      <<"https:", "//", "outpost-daria-reborn.info", "/", "art_alter-egos.html", "#", "daria">>,
      <<"fans", ".html", "#", "art_alter-egos.html">>,
      <<"ch_", "jane", ".html">>,
      <<>> }

DetailLinks == UNION { [1..n -> AlterHrefs] : n \in 0..MaxLinks }

\* href and "art_alter-egos.html" in href
AlterMatch(href) == href # <<>> /\ Contains(href, AlterMarker)

\* href.split("#")[1]: the text between the first "#" and the next one
SplitSecond(href) ==
    LET rest == SplitAfter(href, <<"#">>)
    IN  SubSeq(rest, 1, FirstIn(rest, 1, {"#"}) - 1)

\* CharacterScraper.find_alter_egos_link once the page is parsed: the body of
\* the loop for a hyperlink that matches
AlterEgosLinkOf(href) ==
    IF Contains(href, <<"#">>)
    THEN [url |-> BuildFullUrl(SplitBefore(href, <<"#">>)),
          fragment |-> SplitAfter(href, <<"#">>)]
    ELSE [url |-> BuildFullUrl(href), fragment |-> None]

\* CharacterScraper.find_alter_egos_link: the first hyperlink that matches,
\* (None, None) when there is none
RECURSIVE FindAlterEgosLink(_)
FindAlterEgosLink(links) ==
    IF links = <<>> THEN [url |-> None, fragment |-> None]
    ELSE IF AlterMatch(Head(links)) THEN AlterEgosLinkOf(Head(links))
    ELSE FindAlterEgosLink(Tail(links))

FieldsIdle ==
    /\ page = <<>>
    /\ fphase = "idle"
    /\ fidx = 0
    /\ data = EmptyData
    /\ character = NoCharacter
    /\ description = <<>>

LinksIdle ==
    /\ listing = <<>>
    /\ target = <<>>
    /\ charLink = NotRun
    /\ mainIdx = 0
    /\ mainLink = <<>>

ImagesIdle ==
    /\ doc = NoDoc
    /\ fragment = <<>>
    /\ impl = "none"
    /\ aeBase = <<>>
    /\ ipc = "idle"
    /\ start = NoPos
    /\ cur = NoPos
    /\ images = <<>>

AlterInit ==
    /\ detailLinks \in DetailLinks
    /\ aeResult = NotRun
    /\ aeIdx = 0
    /\ alter_egos_link = None
    /\ alter_egos_fragment = None
    /\ FieldsIdle
    /\ LinksIdle
    /\ ImagesIdle
    /\ PipeIdle

\* CharacterScraper.find_alter_egos_link
CharFindAlterEgosLink ==
    /\ aeResult = NotRun
    /\ aeResult' = FindAlterEgosLink(detailLinks)
    /\ UNCHANGED <<detailLinks, aeIdx, alter_egos_link, alter_egos_fragment,
                   fieldVars, linkVars, imageVars, pipeVars>>

\* main.py step 4: one iteration of "for link in daria_soup.select('a')"; a
\* match sets alter_egos_link, and the fragment when there is a "#", and
\* leaves the loop
MainAlterStep ==
    /\ alter_egos_link = None
    /\ aeIdx < Len(detailLinks)
    /\ aeIdx' = aeIdx + 1
    /\ LET href == detailLinks[aeIdx + 1]
       IN  IF AlterMatch(href)
           THEN /\ alter_egos_link' = MainResolve(href)
                /\ alter_egos_fragment' =
                     IF Contains(href, <<"#">>) THEN SplitSecond(href)
                     ELSE alter_egos_fragment
           ELSE UNCHANGED <<alter_egos_link, alter_egos_fragment>>
    /\ UNCHANGED <<detailLinks, aeResult, fieldVars, linkVars, imageVars, pipeVars>>

AlterNext == CharFindAlterEgosLink \/ MainAlterStep

SpecAlterLink == AlterInit /\ [][AlterNext]_vars

\* main.py step 4 has left its loop
MainAlterDone == alter_egos_link # None \/ aeIdx = Len(detailLinks)

(***************************************************************************)
(* The pipeline: scrape_daria_character_with_alter_egos from its first     *)
(* fetch to its return.  The pages the server answers with are drawn from  *)
(* small sets; ppc is "step1" while the listing is fetched, "step2" from   *)
(* the link loop to the fetch of the detail page, "step3" from the         *)
(* extraction to the fetch of the alter-egos page, "step5" while the       *)
(* images are collected, and "returned" at the end.                        *)
(***************************************************************************)
\* REQUEST_CONFIG["RETRIES"]
RETRIES == 3

PipeListings ==
    { <<>>,
      << [href |-> <<"ch_", "jane", ".html">>, text |-> <<"Jane">>] >>,
      << [href |-> <<"ch_", "jane", ".html">>, text |-> <<"Jane">>],
         [href |-> <<"ch_", "daria", ".html">>, text |-> <<"Daria">>] >> }

PipePages ==
    { <<>>,
      << [blk |-> "p", b |-> <<>>, t |-> <<Long36>>] >>,
      << [blk |-> "p", b |-> <<FN>>, t |-> <<" ", "Erin">>],
         [blk |-> "p", b |-> <<>>, t |-> <<Long51>>] >> }

PipeDetailLinks ==
    { <<>>,
      << <<"art_alter-egos.html">> >>,
      << <<"ch_", "jane", ".html">>, <<"art_alter-egos.html", "#", "daria">> >> }

PipeDocs ==
    { [root |-> "body", kids |-> <<>>],
      [root |-> "body",
       kids |-> << MkNode("h2", <<"daria">>, <<>>, <<"Daria">>, <<>>, <<>>, <<>>),
                   TextNode,
                   MkNode("h2", <<>>, <<>>, <<"Next">>, <<>>, <<>>, <<>>) >>],
      [root |-> "body",
       kids |-> << MkNode("h2", <<"daria">>, <<>>, <<"Daria">>, <<>>, <<>>, <<>>),
                   MkNode("p", <<>>, <<>>, <<>>, <<>>, <<>>, <<DariaImg1>>),
                   MkNode("h2", <<>>, <<>>, <<"Next">>, <<>>, <<>>, <<>>),
                   MkNode("p", <<>>, <<>>, <<>>, <<>>, <<>>, <<OtherImg>>) >>] }

\* a returned None, where the other results are records
NoneResult == [none |-> TRUE]

\* a pipeline that requests the detail page as soon as the listing is parsed
FetchingUngated ==
    CASE ppc = "step1" -> "listing"
      [] ppc = "step2" -> "detail"
      [] ppc = "step3" /\ fphase = "done" /\ MainAlterDone /\ alter_egos_link # None -> "alter"
      [] OTHER -> "none"

\* the page the pipeline is about to request
Fetching ==
    CASE ppc = "step1" -> "listing"
      [] ppc = "step2" /\ MainLinkDone /\ mainLink # <<>> -> "detail"
      [] ppc = "step3" /\ fphase = "done" /\ MainAlterDone /\ alter_egos_link # None -> "alter"
      [] OTHER -> "none"

\* daria_data as it stands
DariaData ==
    [url |-> mainLink, data |-> data, description |-> description,
     alter_egos_images |-> images]

PipelineInit ==
    /\ ppc = "step1"
    /\ retry_count = 0
    /\ requests = <<>>
    /\ result = NotRun
    /\ charResult = NotRun
    /\ FieldsIdle
    /\ LinksIdle
    /\ ImagesIdle
    /\ AlterIdle

\* a retry test that lets one more attempt through
PipeFetchFailsOnceMore ==
    /\ Fetching # "none"
    /\ retry_count < RETRIES + 2
    /\ requests' = Append(requests, [page |-> Fetching, ok |-> FALSE])
    /\ retry_count' = retry_count + 1
    /\ UNCHANGED <<ppc, result, charResult, fieldVars, linkVars, imageVars, alterVars>>

\* fetch_page: session.get raises and a retry is left
PipeFetchFails ==
    /\ Fetching # "none"
    /\ retry_count < RETRIES
    /\ requests' = Append(requests, [page |-> Fetching, ok |-> FALSE])
    /\ retry_count' = retry_count + 1
    /\ UNCHANGED <<ppc, result, charResult, fieldVars, linkVars, imageVars, alterVars>>

\* steps 1 and 3 returning the record as it stands
PipeFirstPagesGiveUpWithData ==
    /\ Fetching \in {"listing", "detail"}
    /\ retry_count = RETRIES
    /\ requests' = Append(requests, [page |-> Fetching, ok |-> FALSE])
    /\ result' = DariaData
    /\ ppc' = "returned"
    /\ UNCHANGED <<retry_count, charResult, fieldVars, linkVars, imageVars, alterVars>>

\* steps 1 and 3: fetch_page gives up and the pipeline returns None
PipeFirstPagesGiveUp ==
    /\ Fetching \in {"listing", "detail"}
    /\ retry_count = RETRIES
    /\ requests' = Append(requests, [page |-> Fetching, ok |-> FALSE])
    /\ result' = NoneResult
    /\ ppc' = "returned"
    /\ UNCHANGED <<retry_count, charResult, fieldVars, linkVars, imageVars, alterVars>>

\* step 5 returning None
PipeAlterGivesUpNone ==
    /\ Fetching = "alter"
    /\ retry_count = RETRIES
    /\ requests' = Append(requests, [page |-> Fetching, ok |-> FALSE])
    /\ result' = NoneResult
    /\ ppc' = "returned"
    /\ UNCHANGED <<retry_count, charResult, fieldVars, linkVars, imageVars, alterVars>>

\* step 5: fetch_page gives up and the pipeline returns daria_data
PipeAlterGivesUp ==
    /\ Fetching = "alter"
    /\ retry_count = RETRIES
    /\ requests' = Append(requests, [page |-> Fetching, ok |-> FALSE])
    /\ result' = DariaData
    /\ ppc' = "returned"
    /\ UNCHANGED <<retry_count, charResult, fieldVars, linkVars, imageVars, alterVars>>

\* step 1: the characters page is fetched and parsed
PipeFetchListing ==
    /\ Fetching = "listing"
    /\ requests' = Append(requests, [page |-> "listing", ok |-> TRUE])
    /\ listing' \in PipeListings
    /\ ppc' = "step2"
    /\ retry_count' = 0
    /\ UNCHANGED <<target, charLink, mainIdx, mainLink, result, charResult,
                   fieldVars, imageVars, alterVars>>

\* step 2: the loop over the hyperlinks of the characters page
PipeLinkStep == ppc = "step2" /\ MainLinkStep

\* step 2: "if not daria_link: return None"
PipeNoLink ==
    /\ ppc = "step2"
    /\ MainLinkDone
    /\ mainLink = <<>>
    /\ result' = NoneResult
    /\ ppc' = "returned"
    /\ UNCHANGED <<retry_count, requests, charResult, fieldVars, linkVars,
                   imageVars, alterVars>>

\* step 3: the detail page is fetched and parsed, daria_data is created and
\* its keys are initialised
PipeFetchDetail ==
    /\ Fetching = "detail"
    /\ requests' = Append(requests, [page |-> "detail", ok |-> TRUE])
    /\ page' \in PipePages
    /\ detailLinks' \in PipeDetailLinks
    /\ fphase' = "bold"
    /\ fidx' = 0
    /\ data' = EmptyData
    /\ ppc' = "step3"
    /\ retry_count' = 0
    /\ UNCHANGED <<character, description, aeResult, aeIdx, alter_egos_link,
                   alter_egos_fragment, result, charResult, linkVars, imageVars>>

\* step 3: the three strategies and the description
PipeExtract ==
    /\ ppc = "step3"
    /\ MainBoldStep \/ MainRegexStrategy \/ MainParaStep \/ MainDescription

\* step 4: the loop over the hyperlinks of the detail page
PipeAlterStep == ppc = "step3" /\ fphase = "done" /\ MainAlterStep

\* step 4: "if not alter_egos_link: return daria_data"
PipeNoAlterLink ==
    /\ ppc = "step3"
    /\ fphase = "done"
    /\ MainAlterDone
    /\ alter_egos_link = None
    /\ result' = DariaData
    /\ ppc' = "returned"
    /\ UNCHANGED <<retry_count, requests, charResult, fieldVars, linkVars,
                   imageVars, alterVars>>

\* step 5: the alter-egos page is fetched and parsed
PipeFetchAlter ==
    /\ Fetching = "alter"
    /\ requests' = Append(requests, [page |-> "alter", ok |-> TRUE])
    /\ doc' \in PipeDocs
    /\ fragment' = IF alter_egos_fragment = None THEN <<>> ELSE alter_egos_fragment
    /\ impl' = "main"
    /\ ipc' = "start"
    /\ ppc' = "step5"
    /\ retry_count' = 0
    /\ UNCHANGED <<aeBase, start, cur, images, result, charResult, fieldVars,
                   linkVars, alterVars>>

\* step 5: the section lookup, the walk and the fallback
PipeCollect ==
    /\ ppc = "step5"
    /\ MainFindSection \/ MainFallback \/ WalkStep \/ WalkBoundary \/ WalkRaise

\* the last line: "return daria_data"
PipeReturn ==
    /\ ppc = "step5"
    /\ ipc = "done"
    /\ result' = DariaData
    /\ ppc' = "returned"
    /\ UNCHANGED <<retry_count, requests, charResult, fieldVars, linkVars,
                   imageVars, alterVars>>

\* Character(character_url) after _extract_character_name on page pg
NewCharacter(pg) ==
    [url |-> BuildFullUrl(<<"ch_", "daria", ".html">>),
     full_name |-> ExtractCharacterName(pg),
     alter_egos_images |-> <<>>]

\* CharacterScraper.scrape_character_info: fetch_and_parse gives the page or
\* None; None is returned before any Character is created
CharScrapeCharacterInfoCall ==
    /\ charResult = NotRun
    /\ \/ charResult' = [fetched |-> FALSE, character |-> NoneResult, alter |-> "none"]
       \/ \E pg \in PipePages :
            charResult' = [fetched |-> TRUE, character |-> NewCharacter(pg),
                           alter |-> "none"]
    /\ UNCHANGED <<ppc, retry_count, requests, result, fieldVars, linkVars,
                   imageVars, alterVars>>

\* CharacterScraper.scrape_alter_egos on the character just scraped: the
\* character is returned as it is when the page cannot be fetched, and with the
\* images appended otherwise
CharScrapeAlterEgosCall ==
    /\ charResult # NotRun
    /\ charResult.fetched
    /\ charResult.alter = "none"
    /\ \/ charResult' = [charResult EXCEPT !.alter = "failed"]
       \/ \E d \in PipeDocs, frag \in {<<>>, <<"daria">>} :
            charResult' =
                [charResult EXCEPT
                    !.alter = "fetched",
                    !.character.alter_egos_images =
                        @ \o CharScrapeImages(d, frag, charResult.character.full_name)]
    /\ UNCHANGED <<ppc, retry_count, requests, result, fieldVars, linkVars,
                   imageVars, alterVars>>

PipelineNext ==
    \/ PipeFetchFails
    \/ PipeFirstPagesGiveUp
    \/ PipeAlterGivesUp
    \/ PipeFetchListing
    \/ PipeLinkStep
    \/ PipeNoLink
    \/ PipeFetchDetail
    \/ PipeExtract
    \/ PipeAlterStep
    \/ PipeNoAlterLink
    \/ PipeFetchAlter
    \/ PipeCollect
    \/ PipeReturn
    \/ CharScrapeCharacterInfoCall
    \/ CharScrapeAlterEgosCall

SpecPipeline == PipelineInit /\ [][PipelineNext]_vars

(***************************************************************************)
(* Claims about the field extractor.                                       *)
(***************************************************************************)
\* the bold elements of the page that yield a value for the key
BoldHits(pg, key) == { i \in 1..Len(pg) : pg[i].b # <<>> /\ BoldHit(pg, i, key) }

\* the paragraphs of the page whose text holds the key
ParaHits(pg, key) ==
    { i \in 1..Len(pg) : pg[i].blk = "p" /\ Contains(ParentTextStrip(pg, i), key) }

\* C1: during field extraction, once a labelled field holds a non-empty value no
\* later step of any strategy changes it, whatever the page.
C1_NeverOverwritten ==
    [][\A ck \in CleanKeys : data[ck] # <<>> => data'[ck] = data[ck]]_vars

\* C2: when several elements hold the same label, the value extracted is the one
\* derived from the first of them in document order, for each strategy on its own:
\* the bold strategy when it finishes, the text-node strategy for the fields the
\* bold strategy left alone, the paragraph strategy for the fields still empty.
C2_FirstMatchWins ==
    /\ BoldStrategyDone =>
         \A k \in Keys :
             BoldHits(page, k) # {} =>
                 data[CleanKey(k)] = BoldValue(page, Min(BoldHits(page, k)), k)
    /\ (fphase = "para" /\ fidx = 0) =>
         \A k \in Keys :
             (BoldHits(page, k) = {} /\ RegexHits(page, k) # {}) =>
                 data[CleanKey(k)] = RegexValue(page, Min(RegexHits(page, k)), k)
    /\ FieldsDone =>
         \A k \in Keys :
             ( /\ BoldHits(page, k) = {}
               /\ RegexHits(page, k) # {} => RegexValue(page, Min(RegexHits(page, k)), k) = <<>>
               /\ ParaHits(page, k) # {} ) =>
                 data[CleanKey(k)] = ParaValue(page, Min(ParaHits(page, k)), k)

\* the page is one enclosing element made of two or more "<b>label</b> value"
\* pairs with different labels, no value holding a label
LabelledPairs(pg) ==
    /\ Len(pg) >= 2
    /\ \A i \in 2..Len(pg) : pg[i].blk = "same"
    /\ \A i \in 1..Len(pg) :
        /\ pg[i].b # <<>>
        /\ pg[i].b[1] \in Keys
        /\ Strip(pg[i].t) # <<>>
        /\ \A k \in Keys : ~Contains(pg[i].t, k)
    /\ \A i, j \in 1..Len(pg) : i # j => pg[i].b[1] # pg[j].b[1]

\* C5: when several bold label/value pairs share one enclosing element, the value
\* extracted for each label is exactly that label's value, without the text of
\* the label that follows or of its value (DariaScraper's fields and
\* CharacterScraper's full name).
C5_ValueStopsAtNextLabel ==
    LabelledPairs(page) =>
        /\ BoldStrategyDone =>
             \A i \in 1..Len(page) : data[CleanKey(page[i].b[1])] = Strip(page[i].t)
        /\ (character # NoCharacter /\ page[1].b[1] = FN) =>
             character.full_name = Strip(page[1].t)

(***************************************************************************)
(* Claims about the link resolvers.                                        *)
(***************************************************************************)
\* C9: in the text fallback of CharacterScraper.find_character_link a hyperlink
\* matches only if its text equals the target name, case-insensitively: when no
\* href matches, the result is the first hyperlink (with an href) whose text
\* equals the name, and None when no text equals it.
C9_TextMatchIsExact ==
    (charLink # NotRun /\ HrefMatches(listing, HrefPattern(target)) = {}) =>
        charLink.url = FindLinkByText(listing, target, FALSE)

\* main.py step 2: the hyperlinks whose href holds the slug, and those whose text
\* is the name
MainHrefMatches(links) ==
    { i \in 1..Len(links) :
        links[i].href # <<>> /\ Contains(links[i].href, <<"ch_", "daria", ".html">>) }

MainTextMatches(links) ==
    { i \in 1..Len(links) :
        links[i].href # <<>> /\ Lower(Strip(links[i].text)) = <<"daria">> }

\* C10: the URL-pattern strategy runs before the link-text strategy: when some
\* href holds the slug the result is the first such hyperlink, even after an
\* earlier hyperlink that matches by text only; the text decides only when no
\* href matches, and then the first text match wins.  For both resolvers.
C10_HrefBeforeText ==
    /\ charLink # NotRun =>
         charLink.url =
            IF HrefMatches(listing, HrefPattern(target)) # {}
            THEN BuildFullUrl(listing[Min(HrefMatches(listing, HrefPattern(target)))].href)
            ELSE FindLinkByText(listing, target, DefaultPartial)
    /\ MainLinkDone =>
         mainLink =
            IF MainHrefMatches(listing) # {}
            THEN MainResolve(listing[Min(MainHrefMatches(listing))].href)
            ELSE IF MainTextMatches(listing) # {}
            THEN MainResolve(listing[Min(MainTextMatches(listing))].href)
            ELSE <<>>

(***************************************************************************)
(* Claims about the image collectors.                                      *)
(***************************************************************************)
\* the k-th smallest element of a set of numbers
Nth(S, k) == CHOOSE x \in S : Cardinality({ y \in S : y < x }) = k - 1

\* a document made of section A, a heading, and section B: the first child is
\* the one element the fragment finds, child h is a heading with text, and every
\* other child is an image or a paragraph of images
SectionDoc(d, frag, h) ==
    /\ h \in 2..Len(d.kids)
    /\ \/ d.kids[1].id = frag
       \/ d.kids[1].tag = "a" /\ d.kids[1].name = frag
       \/ d.kids[1].anchor = frag
    /\ IsHeadingWithText(d, NodePos(h)) /\ ~IsMarker(d.kids[h])
    /\ \A k \in 2..Len(d.kids) :
        k # h => d.kids[k].tag \in {"img", "p"} /\ ~IsMarker(d.kids[k])

\* the images of the children lo..hi, in document order
RECURSIVE ImgsOfKids(_, _, _)
ImgsOfKids(d, lo, hi) ==
    IF lo > hi THEN <<>>
    ELSE NodeSelfImgs(d, lo) \o d.kids[lo].imgs \o ImgsOfKids(d, lo + 1, hi)

\* C3: for a document made of section A (N images), a heading and section B (M
\* images), collecting with A's fragment returns exactly A's N images and none
\* of B's, whichever start node the lookup chooses (AlterEgoScraper and main.py).
C3_SectionBoundaryRespected ==
    \A h \in 1..Len(doc.kids) :
        (ipc = "done" /\ impl \in {"alter_ego", "main"} /\ SectionDoc(doc, fragment, h)) =>
            images = IF impl = "main"
                     THEN MainExtractImages(ImgsOfKids(doc, 1, h - 1))
                     ELSE ExtractImages(aeBase, ImgsOfKids(doc, 1, h - 1))

\* <a name="daria"></a><img src="daria_1.jpg"><h2>Next</h2><img src="other.jpg">
AnchorImageHeadingImage ==
    << MkNode("a", <<>>, <<"daria">>, <<>>, <<>>, <<>>, <<>>),
       MkNode("img", <<>>, <<>>, <<>>, <<>>, <<DariaImg1>>, <<>>),
       MkNode("h2", <<>>, <<>>, <<"Next">>, <<>>, <<>>, <<>>),
       MkNode("img", <<>>, <<>>, <<>>, <<>>, <<OtherImg>>, <<>>) >>

\* C4: on a page where the named anchor of the fragment is followed by a sibling
\* image, a heading with text and another image, collecting with the fragment
\* returns exactly one image reference: the image before the heading, its src
\* resolved against the base URL, with empty width and height.
C4_AnchorThenSiblingImage ==
    ( /\ ipc = "done"
      /\ impl \in {"alter_ego", "main"}
      /\ fragment = <<"daria">>
      /\ doc.kids = AnchorImageHeadingImage ) =>
        images = << [link |-> BaseUrl \o <<"/", "daria", "_", "1", ".jpg">>,
                     width |-> "", height |-> ""] >>

\* C6: every URL stored in a record is absolute, with a scheme and a host,
\* whatever href or src the markup holds: here the link of every image reference.
C6_ImageLinksAbsolute ==
    ipc = "done" => \A k \in 1..Len(images) : IsAbsolute(images[k].link)

\* the images of the page that match the character key in their src, their alt
\* or the text of their parent, case-insensitively
KeyMatches(d, key) ==
    { k \in 1..Len(AllImgs(d)) :
        \/ Contains(Lower(AllImgs(d)[k].src), Lower(key))
        \/ Contains(Lower(AllImgs(d)[k].alt), Lower(key))
        \/ Contains(Lower(Strip(AllImgs(d)[k].ptext)), Lower(key)) }

\* a fragment was given and no section was found for it
LookupFailed == fragment # <<>> /\ FindByIdOrAnchor(doc, fragment) = NoPos

\* images holds one reference for each image whose index is in S, in
\* document order, refs[k] being the reference of image k of the page
RefsOf(S, refs) ==
    /\ Len(images) = Cardinality(S)
    /\ \A k \in 1..Len(images) : images[k] = refs[Nth(S, k)]

\* the reference each collector builds for image k of the page
AERefs == [k \in 1..Len(AllImgs(doc)) |-> ExtractImageData(aeBase, AllImgs(doc)[k])]
MainRefs == [k \in 1..Len(AllImgs(doc)) |-> MainImageData(AllImgs(doc)[k])]
CharRefs ==
    [k \in 1..Len(AllImgs(doc)) |->
        ImageData(BuildFullUrl(AllImgs(doc)[k].src), AllImgs(doc)[k])]

\* C7 as stated: when the fragment's lookup fails, the fallback returns exactly
\* the J images that match the character key in src, alt or parent text, in
\* document order (AlterEgoScraper with the fragment as key, main.py with
\* "daria").
C7_FallbackReturnsMatches ==
    (ipc = "done" /\ LookupFailed) =>
        /\ impl = "alter_ego" => RefsOf(KeyMatches(doc, fragment), AERefs)
        /\ impl = "main" => RefsOf(KeyMatches(doc, <<"daria">>), MainRefs)

\* the images that have a src
WithSrc(d) == { k \in 1..Len(AllImgs(d)) : AllImgs(d)[k].src # <<>> }

\* C7 as amended: AlterEgoScraper's fallback returns the matching images that
\* have a src, in document order; main.py's fallback returns the images whose
\* src holds "daria", in document order.
C7_FallbackReturnsMatchesWithSrc ==
    (ipc = "done" /\ LookupFailed) =>
        /\ impl = "alter_ego" =>
             RefsOf(KeyMatches(doc, fragment) \cap WithSrc(doc), AERefs)
        /\ impl = "main" =>
             RefsOf({ k \in WithSrc(doc) :
                        Contains(Lower(AllImgs(doc)[k].src), <<"daria">>) },
                    MainRefs)

\* C7 witness: the fallback of AlterEgoScraper has kept one of two images, where
\* one image matches by its alt alone and has a src
C7_Witness ==
    /\ ipc = "done" /\ LookupFailed /\ impl = "alter_ego"
    /\ Len(AllImgs(doc)) = 2
    /\ Len(images) = 1
    /\ \E k \in KeyMatches(doc, fragment) \cap WithSrc(doc) :
        ~Contains(Lower(AllImgs(doc)[k].src), Lower(fragment))

\* C8 as stated: with no fragment, the collection returns one image reference
\* for every image element of the page, unfiltered (AlterEgoScraper and
\* CharacterScraper).
C8_NoFragmentCollectsAll ==
    (ipc = "done" /\ fragment = <<>> /\ impl \in {"alter_ego", "character"}) =>
        Len(images) = Len(AllImgs(doc))

\* C8 as amended: with no fragment AlterEgoScraper returns one reference for
\* every image that has a src, in document order, with no name filter;
\* CharacterScraper scans the whole page and keeps the images whose src holds
\* the character id followed by "_".
C8_NoFragmentCollectsAllWithSrc ==
    (ipc = "done" /\ fragment = <<>>) =>
        /\ impl = "alter_ego" => RefsOf(WithSrc(doc), AERefs)
        /\ impl = "character" =>
             RefsOf({ k \in WithSrc(doc) :
                        Contains(Lower(AllImgs(doc)[k].src),
                                 GetCharacterId(character.full_name) \o <<"_">>) },
                    CharRefs)

\* C8 witness: AlterEgoScraper, given no fragment, has returned both images of a
\* page on which one image matches the name nowhere
C8_Witness ==
    /\ ipc = "done" /\ fragment = <<>> /\ impl = "alter_ego"
    /\ Len(AllImgs(doc)) = 2
    /\ Len(images) = 2
    /\ KeyMatches(doc, <<"daria">>) # 1..2

\* str.replace(" ", "")
RemoveSpaces(s) == SelectSeq(s, LAMBDA t : t # " ")

\* "ch_" followed by the name lower-cased with its spaces removed
Slug(name) == <<"ch_">> \o RemoveSpaces(Lower(name))

\* the hyperlinks whose href contains the slug of the name
SlugMatches(links, name) ==
    { i \in 1..Len(links) : links[i].href # <<>> /\ Contains(links[i].href, Slug(name)) }

\* C11: strategy A matches on "ch_" followed by the target name lower-cased
\* with its spaces removed: when some href contains that slug,
\* find_character_link returns the first such hyperlink, resolved.
C11_SlugLowerNoSpaces ==
    (charLink # NotRun /\ SlugMatches(listing, target) # {}) =>
        charLink.url = BuildFullUrl(listing[Min(SlugMatches(listing, target))].href)

\* the first hyperlink of the detail page whose href contains the marker
AlterMatches(links) == { i \in 1..Len(links) : AlterMatch(links[i]) }

FirstAlterHref == detailLinks[Min(AlterMatches(detailLinks))]

\* the page URL and the fragment the claim describes for an href
SplitOff(href) ==
    IF Contains(href, <<"#">>)
    THEN [page |-> SplitBefore(href, <<"#">>), fragment |-> SplitAfter(href, <<"#">>)]
    ELSE [page |-> href, fragment |-> None]

\* C12: for the first hyperlink whose href contains the alter-egos marker, the
\* resolver returns the text after the "#" as the fragment and a page URL
\* without the "#fragment" suffix; with no "#" it returns the page URL and an
\* absent fragment, a success (CharacterScraper.find_alter_egos_link and
\* main.py step 4).
C12_FragmentSplitOff ==
    AlterMatches(detailLinks) # {} =>
        /\ aeResult # NotRun =>
              /\ aeResult.url = BuildFullUrl(SplitOff(FirstAlterHref).page)
              /\ aeResult.fragment = SplitOff(FirstAlterHref).fragment
        /\ MainAlterDone =>
              /\ alter_egos_link = MainResolve(SplitOff(FirstAlterHref).page)
              /\ alter_egos_fragment = SplitOff(FirstAlterHref).fragment

\* the first runs of the <p> elements of the page
Paragraphs(pg) == { i \in 1..Len(pg) : pg[i].blk = "p" }

\* the text of the paragraph that starts at run i, trimmed at both ends
TrimmedText(pg, i) == Strip(GetTextRange(pg, i, BlockEnd(pg, i), FALSE))

\* the paragraphs whose trimmed text is longer than 50 characters and holds
\* no known label
Qualifying(pg) ==
    { i \in Paragraphs(pg) :
        /\ CharLen(TrimmedText(pg, i)) > 50
        /\ ~\E key \in Keys : Contains(TrimmedText(pg, i), key) }

\* C16: the description consists of exactly the paragraphs whose trimmed text
\* is longer than 50 characters and contains none of the known labels, in
\* document order, repeated paragraphs kept; a paragraph of exactly 50
\* characters, or one that contains a label, is never in it.
C16_DescriptionParagraphs ==
    fphase = "done" =>
        /\ Len(description) = Cardinality(Qualifying(page))
        /\ \A k \in 1..Len(description) :
              description[k] = ParentTextStrip(page, Nth(Qualifying(page), k))

\* C17: a label match whose remainder is empty once trimmed counts as not
\* found: no step replaces a non-empty value by the empty string, and the
\* text-node strategy still fills an empty field from a later element when the
\* first matching element gives an empty remainder.
C17_EmptyRemainderIsNotFound ==
    [][ /\ \A ck \in CleanKeys : data[ck] # <<>> => data'[ck] # <<>>
        /\ (fphase = "bold" /\ fphase' = "para") =>
              \A k \in Keys :
                  ( /\ data[CleanKey(k)] = <<>>
                    /\ \E n \in RegexHits(page, k) : RegexValue(page, n, k) # <<>> ) =>
                      data'[CleanKey(k)] # <<>> ]_vars

(***************************************************************************)
(* Claims about the pipeline.                                              *)
(***************************************************************************)
\* the requests made for a page, and whether one of them succeeded
Asked(pg) == { i \in 1..Len(requests) : requests[i].page = pg }

Fetched(pg) == \E i \in Asked(pg) : requests[i].ok

\* C13: if the listing page cannot be fetched, or no link to the detail page is
\* found on it, or the detail page cannot be fetched, the operation returns the
\* absent value and never a record (the pipeline of main.py, and
\* CharacterScraper.scrape_character_info).
C13_NoDetailNoRecord ==
    /\ ( /\ ppc = "returned"
         /\ \/ ~Fetched("listing")
            \/ Fetched("listing") /\ mainLink = <<>>
            \/ mainLink # <<>> /\ ~Fetched("detail") ) =>
           result = NoneResult
    /\ (charResult # NotRun /\ ~charResult.fetched) =>
           charResult.character = NoneResult

\* C13 witness: the listing was fetched and the link found, the detail page
\* was asked for RETRIES + 1 times in vain, and None was returned
C13_Witness ==
    /\ ppc = "returned"
    /\ result = NoneResult
    /\ Fetched("listing")
    /\ mainLink # <<>>
    /\ Cardinality(Asked("detail")) = RETRIES + 1
    /\ ~Fetched("detail")

\* C14: once the detail page is fetched and the record created, a failure to
\* find the alter-egos link or to fetch the alter-egos page still returns the
\* record, with an empty image list and with the fields and the description as
\* extracted (the pipeline of main.py, and CharacterScraper.scrape_alter_egos).
C14_RecordSurvivesAlterFailure ==
    /\ (ppc = "returned" /\ Fetched("detail") /\ ~Fetched("alter")) =>
           /\ fphase = "done"
           /\ result = [url |-> mainLink, data |-> data,
                        description |-> Description(page),
                        alter_egos_images |-> <<>>]
    /\ (charResult # NotRun /\ charResult.alter = "failed") =>
           \E pg \in PipePages : charResult.character = NewCharacter(pg)

\* C14 witness: the alter-egos page was asked for in vain and the record came
\* back with a full name and a description paragraph
C14_Witness ==
    /\ ppc = "returned"
    /\ Asked("alter") # {}
    /\ ~Fetched("alter")
    /\ result # NoneResult
    /\ result.data["full_name"] # <<>>
    /\ result.description # <<>>
    /\ result.alter_egos_images = <<>>

\* the order of the pages in a run
Rank(pg) == CASE pg = "listing" -> 1 [] pg = "detail" -> 2 [] pg = "alter" -> 3

\* C15: the fetches of a run happen in the order listing, detail, alter-egos,
\* each gated on the one before: the detail page is requested only after the
\* listing was fetched and a link found, the alter-egos page only after the
\* detail page was fetched and an alter-egos link found, and nothing is
\* requested after a page was fetched or given up.
C15_FetchesInOrderAndGated ==
    /\ \A i, j \in 1..Len(requests) :
          i < j => /\ Rank(requests[i].page) <= Rank(requests[j].page)
                   /\ requests[i].ok => requests[j].page # requests[i].page
    /\ Asked("detail") # {} => Fetched("listing") /\ mainLink # <<>>
    /\ Asked("alter") # {} => Fetched("detail") /\ alter_egos_link # None
    /\ ppc = "returned" => Fetching = "none"

\* C15 witness: a run that fetched all three pages, one of them at a retry
C15_Witness ==
    /\ ppc = "returned"
    /\ Fetched("listing") /\ Fetched("detail") /\ Fetched("alter")
    /\ \E i \in 1..Len(requests) : ~requests[i].ok

\* no string of the page holds a known label, in any case
NoLabelPage(pg) ==
    \A n \in 1..(2 * Len(pg)) :
        \A key \in Keys : ~Contains(Lower(StrAt(pg, n)), Lower(key))

\* C18: for a page with no matching label, no qualifying paragraph and no
\* image, field extraction returns every known label with the empty string,
\* the description is empty, image collection returns an empty sequence, and
\* none of the three raises.
C18_EmptyResultsNoError ==
    /\ (fphase = "done" /\ NoLabelPage(page) /\ Qualifying(page) = {}) =>
           data = EmptyData /\ description = <<>>
    /\ (ppc = "step5" /\ AllImgs(doc) = <<>>) =>
           /\ ipc # "raised"
           /\ ipc = "done" => images = <<>>
    /\ (ppc = "returned" /\ Fetched("alter") /\ AllImgs(doc) = <<>>) =>
           result.alter_egos_images = <<>>

\* a is b with some of its entries left out, the others in b's order
RECURSIVE IsSubsequence(_, _)
IsSubsequence(a, b) ==
    IF a = <<>> THEN TRUE
    ELSE IF b = <<>> THEN FALSE
    ELSE IF Head(a) = Head(b) THEN IsSubsequence(Tail(a), Tail(b))
    ELSE IsSubsequence(a, Tail(b))

\* the first child after child i that ends a walk started at child i
WalkEnd(d, i) ==
    LET ends == { j \in (i + 1)..Len(d.kids) : IsBoundary(d, NodePos(i), NodePos(j)) }
    IN  IF ends = {} THEN Len(d.kids) + 1 ELSE Min(ends)

\* the images below the children lo..hi, in document order
RECURSIVE ImgsBelowKids(_, _, _)
ImgsBelowKids(d, lo, hi) ==
    IF lo > hi THEN <<>> ELSE d.kids[lo].imgs \o ImgsBelowKids(d, lo + 1, hi)

\* the images the searches of a collection of AlterEgoScraper return: the
\* whole page, or what lies below the elements the walk visits
Visited(d, frag, s) ==
    IF frag = <<>> \/ s.kind = "root" THEN AllImgs(d)
    ELSE ImgsBelowKids(d, s.i, WalkEnd(d, s.i) - 1)

\* the number of entries of a sequence that satisfy having a src
RECURSIVE CountWithSrc(_)
CountWithSrc(imgs) ==
    IF imgs = <<>> THEN 0
    ELSE (IF Head(imgs).src # <<>> THEN 1 ELSE 0) + CountWithSrc(Tail(imgs))

\* C19: the image list of a collection is in the order in which the images
\* are visited in the document, and nothing is deduplicated: every visited
\* image that has a src yields an entry of its own, so a source that occurs k
\* times yields k entries (AlterEgoScraper's section walk and whole-page scan).
C19_DocumentOrderNoDedup ==
    (ipc = "done" /\ impl = "alter_ego") =>
        /\ IsSubsequence(images, [k \in 1..Len(AllImgs(doc)) |-> AERefs[k]])
        /\ (fragment = <<>> \/ start # NoPos) =>
              Len(images) = CountWithSrc(Visited(doc, fragment, start))

\* C19 witness: a section walk has returned two entries for one source that
\* occurs twice
C19_Witness ==
    /\ ipc = "done" /\ impl = "alter_ego"
    /\ start # NoPos
    /\ Len(images) = 2
    /\ images[1] = images[2]

\* C20: the section walk returns an image list and raises no exception for
\* every sibling sequence, text and whitespace nodes between the tags
\* included: such nodes are passed over.
C20_WalkNeverRaises == ipc # "raised"

\* the children that carry the fragment as their id, and those that are or
\* hold an anchor named by it
IdKids(d, frag) == { i \in 1..Len(d.kids) : d.kids[i].id = frag }
AnchorKids(d, frag) ==
    { i \in 1..Len(d.kids) :
        (d.kids[i].tag = "a" /\ d.kids[i].name = frag) \/ d.kids[i].anchor = frag }

\* the parent of the anchor found through child i: the child that holds it,
\* or the root for an anchor that is a child of the root
AnchorParent(d, frag, i) ==
    IF d.kids[i].tag = "a" /\ d.kids[i].name = frag THEN RootPos ELSE NodePos(i)

\* the start node as the claim reads: the element found by id itself, else
\* the parent of the named anchor
ClaimedStart(d, frag) ==
    IF IdKids(d, frag) # {} THEN NodePos(Min(IdKids(d, frag)))
    ELSE IF AnchorKids(d, frag) # {} THEN AnchorParent(d, frag, Min(AnchorKids(d, frag)))
    ELSE NoPos

\* the start node of AlterEgoScraper: an element found that is no <a> is the
\* start itself; an <a> found, by id or by name, gives way to its parent
\* unless that parent is <body>
AlterEgoStart(d, frag) ==
    LET byId == IdKids(d, frag)
        byName == AnchorKids(d, frag)
    IN  IF byId # {}
        THEN IF d.kids[Min(byId)].tag = "a" /\ d.root # "body"
             THEN RootPos ELSE NodePos(Min(byId))
        ELSE IF byName # {}
        THEN IF AnchorParent(d, frag, Min(byName)) = RootPos /\ d.root = "body"
             THEN NodePos(Min(byName))
             ELSE AnchorParent(d, frag, Min(byName))
        ELSE NoPos

\* C21 as stated: with a fragment, the element found by id is the start node
\* itself, an element found only as a named anchor is replaced by its
\* parent, and with neither found the fallback-by-name scan runs and nothing
\* is walked.
C21_StartNodeAsClaimed ==
    /\ (impl = "alter_ego" /\ fragment # <<>> /\ ipc # "start") =>
           /\ start = ClaimedStart(doc, fragment)
           /\ ClaimedStart(doc, fragment) = NoPos =>
                 /\ ipc = "done" /\ cur = NoPos
                 /\ images = ExtractImagesByCharacterName(aeBase, doc, fragment)
    /\ (impl = "character" /\ fragment # <<>> /\ ipc = "done"
            /\ ClaimedStart(doc, fragment) # NoPos) =>
           images = CharImageInfos(PosImgs(doc, ClaimedStart(doc, fragment)),
                                   GetCharacterId(character.full_name))

\* C21 amended: the lookup is by id first and by named anchor second.  In
\* AlterEgoScraper an element found that is not an <a> is the start node; an
\* <a> found by either search is replaced by its parent unless the parent is
\* <body>, and then the <a> itself is the start node; with neither found the
\* fallback-by-name scan runs and nothing is walked.  In CharacterScraper the
\* element found by id is searched itself and a named anchor's parent is
\* searched, <body> included.
C21_StartNodeLookup ==
    /\ (impl = "alter_ego" /\ fragment # <<>> /\ ipc # "start") =>
           /\ start = AlterEgoStart(doc, fragment)
           /\ AlterEgoStart(doc, fragment) = NoPos =>
                 /\ ipc = "done" /\ cur = NoPos
                 /\ images = ExtractImagesByCharacterName(aeBase, doc, fragment)
    /\ (impl = "character" /\ fragment # <<>> /\ ipc = "done"
            /\ ClaimedStart(doc, fragment) # NoPos) =>
           images = CharImageInfos(PosImgs(doc, ClaimedStart(doc, fragment)),
                                   GetCharacterId(character.full_name))

\* C21 witness: AlterEgoScraper walks from a named anchor that is a child of
\* <body>, found by name only
C21_Witness ==
    /\ impl = "alter_ego" /\ ipc = "walk"
    /\ doc.root = "body"
    /\ IdKids(doc, fragment) = {}
    /\ AnchorKids(doc, fragment) # {}
    /\ start = NodePos(Min(AnchorKids(doc, fragment)))
    /\ PosTag(doc, start) = "a"

\* the level of a heading tag, 0 for any other tag
HeadingLevel(tag) ==
    CASE tag = "h1" -> 1 [] tag = "h2" -> 2 [] tag = "h3" -> 3
      [] tag = "h4" -> 4 [] tag = "h5" -> 5 [] tag = "h6" -> 6
      [] OTHER -> 0

\* child j is a heading of level 1 to 4 with non-empty text
StopsWalk(d, j) ==
    /\ HeadingLevel(d.kids[j].tag) \in 1..4
    /\ Strip(d.kids[j].text) # <<>>

\* the first child after child i that stops a walk, or one past the last child
FirstStop(d, i) ==
    Min({ j \in (i + 1)..Len(d.kids) : StopsWalk(d, j) } \cup { Len(d.kids) + 1 })

\* what a walk collects from the children lo..hi
WalkCollected(d, lo, hi) ==
    IF impl = "main" THEN MainExtractImages(ImgsBelowKids(d, lo, hi))
    ELSE ExtractImages(aeBase, ImgsBelowKids(d, lo, hi))

LinkTarget(img) == IF HasParentHref(img) THEN img.href ELSE img.src

\* the reference the claim gives an image: the target resolved against the
\* site's base URL, width and height as in the markup
ClaimedReference(img) ==
    [link |-> UrlJoin(BaseUrl, LinkTarget(img)), width |-> img.width, height |-> img.height]

\* C23: every collected image reference, on every collection path, is the
\* reference of an image of the page: its link is the enclosing hyperlink's
\* target when the image is nested in a hyperlink and the image's own src
\* otherwise, resolved to absolute; width and height are the attribute values
\* of the markup, the empty string when missing.
C23_ReferenceOfEachImage ==
    ipc = "done" =>
        \A k \in 1..Len(images) :
            /\ \E n \in 1..Len(AllImgs(doc)) :
                  /\ AllImgs(doc)[n].src # <<>>
                  /\ images[k] = ClaimedReference(AllImgs(doc)[n])
            /\ IsAbsolute(images[k].link)

\* the fetch of page pg has returned: with its response, or with None
FetchReturned(pg) ==
    \/ Fetched(pg)
    \/ /\ ppc = "returned"
       /\ Asked(pg) # {}
       /\ requests[Len(requests)].page = pg

\* C24: a fetch issues its attempts one after another for the same page and
\* stops at the first that succeeds, returning the response; when every
\* attempt fails it returns None after exactly RETRIES + 1 attempts; it never
\* issues more than RETRIES + 1 attempts and none after a success.
C24_BoundedRetry ==
    \A pg \in {"listing", "detail", "alter"} :
        /\ Cardinality(Asked(pg)) <= RETRIES + 1
        /\ \A i, j \in Asked(pg) :
              /\ i < j => ~requests[i].ok
              /\ \A k \in i..j : requests[k].page = pg
        /\ (FetchReturned(pg) /\ ~Fetched(pg)) =>
              Cardinality(Asked(pg)) = RETRIES + 1
        /\ (Asked(pg) # {} /\ ~FetchReturned(pg)) =>
              /\ Fetching = pg
              /\ retry_count = Cardinality(Asked(pg))
        /\ Fetched(pg) => Fetching # pg

\* C24 witness: a run whose listing page came at the last attempt allowed and
\* whose detail page came at a retry gave up on the alter-egos page after
\* RETRIES + 1 failed attempts
C24_Witness ==
    /\ ppc = "returned"
    /\ Cardinality(Asked("listing")) = RETRIES + 1 /\ Fetched("listing")
    /\ Cardinality(Asked("detail")) = 2 /\ Fetched("detail")
    /\ Cardinality(Asked("alter")) = RETRIES + 1 /\ ~Fetched("alter")
    /\ RETRIES + 1 = 4

\* C25: the section walk terminates for every finite sibling sequence and
\* every start node: each iteration either stops at a boundary heading or
\* moves to the next sibling, and the walk ends when the siblings are
\* exhausted, with or without a heading among them.
C25_EachIterationStopsOrAdvances ==
    [][ipc = "walk" =>
          \/ /\ cur.kind = "node" /\ StopsWalk(doc, cur.i)
             /\ ipc' = "done"
          \/ /\ cur' = NextSibling(doc, cur)
             /\ ipc' = IF cur' = NoPos THEN "done" ELSE "walk"]_vars

====
